---------------------------- MODULE Spec2Model ----------------------------
(***************************************************************************)
(* A model of main_mental_maths_approximation.py (Mental Math Trainer).     *)
(*                                                                         *)
(* Numbers.  Python ints are modelled as [k |-> "int", v |-> n].  Python   *)
(* floats are modelled as [k |-> "float", v |-> t] where t counts units of  *)
(* 1e-5 (Unit ticks per 1): every float the program stores is a decimal     *)
(* with at most five places (round(.., 1..5)) or an exact quotient.  The    *)
(* tolerances 1e-9 and 1e-6 of the source are below one tick.              *)
(*                                                                         *)
(* Randomness.  Every call of the random module is a nondeterministic       *)
(* choice over a sample of the values the call can return (RandInt,         *)
(* RandomUnit, random.choice over the whole list).                          *)
(***************************************************************************)
EXTENDS Integers, Sequences, FiniteSets, TLC

VARIABLES
    runner,      \* which function is executing: "main", a run_* mode, ...
    pc,          \* position inside that function
    difficulty,  \* the difficulty argument / local
    n,           \* run_classic/run_approximations/run_probability: n
    i,           \* the for-loop variable i
    score,       \* the local score
    issued,      \* ghost: questions printed so far in this session
    answered,    \* ghost: questions judged (Correct!/Wrong) so far
    elapsed,     \* time.time() - t0, in seconds
    topic,       \* the topic chosen for the current question
    ans,         \* the generator's answer for the current question (not kept
                 \* by the session runners for multiple-choice questions)
    opts,        \* mcq_options: the set opts while the re-roll loop runs
    ret,         \* mcq_options: the returned (shuffled) list
    hits,        \* session runners: the indices k with abs(opts[k-1]-ans) < 1e-9
    valid,       \* get_choice: the valid argument
    typed,       \* the line input() has returned, Blocked while it waits
    out          \* the lines the last step printed

vars == <<runner, pc, difficulty, n, i, score, issued, answered, elapsed,
          topic, ans, opts, ret, hits, valid, typed, out>>

-----------------------------------------------------------------------------
(* Bounds of the model *)

\* RandInt samples the first and last Draws values of a range (and its middle)
Draws == 2
\* random.random() is sampled at k/RandSteps, k < RandSteps, and just below 1
RandSteps == 8
\* the largest question count typed at "How many questions? "
MaxCount == 2

(* Constants of the program *)

\* run_eighty: limit = 480
Limit == 480
\* run_eighty: for i in range(1,81)
DrillLen == 80

-----------------------------------------------------------------------------
(* Arithmetic helpers *)

Abs(x) == IF x < 0 THEN -x ELSE x
Max(a, b) == IF a >= b THEN a ELSE b
Min(a, b) == IF a <= b THEN a ELSE b

\* ticks per 1: floats are counted in units of 1e-5
Unit == 10^5

PyInt(x) == [k |-> "int", v |-> x]
PyFloat(t) == [k |-> "float", v |-> t]
None == [k |-> "none", v |-> 0]

Difficulties == {"easy", "medium", "hard"}

\* typed while the program waits in input(), or reads nothing
Blocked == <<"(blocked)">>

Range(s) == {s[k] : k \in DOMAIN s}

\* a line of text printed
Say(t) == [text |-> t]

\* the texts of the lines printed
Texts(printed) == {printed[k].text : k \in DOMAIN printed}

RECURSIVE OddPart(_)
OddPart(d) == IF d % 2 = 0 THEN OddPart(d \div 2) ELSE d

\* n/d (d > 0) is a binary fraction: a double holds it exactly
IsDyadic(num, den) == num % OddPart(den) = 0

(***************************************************************************)
(* Python's round(): the integers round(num/den) can be.  round() is       *)
(* correctly rounded, half to even, on the double it is given.  Off a tie   *)
(* the result is the nearest integer.  On a tie of the exact quotient: when *)
(* the double is known to hold the quotient exactly (exact, and a binary    *)
(* fraction: halfEven) the even neighbour; otherwise the double lies on     *)
(* either side of the tie and both neighbours are possible.                 *)
(***************************************************************************)
RoundOutcomes(num, den, halfEven) ==
    LET q == num \div den
        r == num % den
    IN  IF 2 * r < den THEN {q}
        ELSE IF 2 * r > den THEN {q + 1}
        ELSE IF halfEven
             THEN {IF q % 2 = 0 THEN q ELSE q + 1}
             ELSE {q, q + 1}

\* round() of a double just below num/den: a tie of num/den rounds down
RoundBelow(num, den) ==
    LET q == num \div den
        r == num % den
    IN  IF r = 0 THEN {q}
        ELSE IF 2 * r <= den THEN {q} ELSE {q + 1}

-----------------------------------------------------------------------------
(* The random module *)

\* random.randint(lo, hi): a sample of lo..hi
RandInt(lo, hi) ==
    {x \in lo..hi : x - lo < Draws \/ hi - x < Draws \/ x = (lo + hi) \div 2}

\* random.random(): k stands for k/RandSteps, and RandSteps for the largest
\* double below 1
RandomUnit == 0..RandSteps

-----------------------------------------------------------------------------
(* Global helpers of the source *)

\* the decimal depth of a difficulty
Depth(d) == IF d = "easy" THEN 1 ELSE IF d = "medium" THEN 2 ELSE 3

\* ticks per unit of the last kept decimal place
Grid(decimals) == 10^(5 - decimals)

\* round(value, places) of the float value = num / (den * 10^scale): the
\* floats it can return
PyRound(num, den, scale, places, exact) ==
    LET halfEven == exact /\ IsDyadic(num, den * 10^scale)
    IN  {PyFloat(o * Grid(places)) :
            o \in IF places <= scale
                  THEN RoundOutcomes(num, den * 10^(scale - places), halfEven)
                  ELSE RoundOutcomes(num * 10^(places - scale), den, halfEven)}

\* round(x, decimals) of a stored float x
RoundFloat(x, decimals) ==
    {PyFloat(o * Grid(decimals)) :
        o \in RoundOutcomes(x.v, Grid(decimals), IsDyadic(x.v, Unit))}

round_to_difficulty(num, den, scale, d, exact) ==
    PyRound(num, den, scale, Depth(d), exact)

\* abs(x - round(x)) < 1e-9
is_integer(x) ==
    IF x.k = "int" THEN TRUE
    ELSE LET r == x.v % Unit
             dist == Min(r, Unit - r)
         IN  dist * 10^4 < 1

\* int(x): truncation toward zero
ToInt(x) ==
    IF x.k = "int" THEN x
    ELSE IF x.v >= 0 THEN PyInt(x.v \div Unit) ELSE PyInt(-((-x.v) \div Unit))

\* abs(a - b) < tol for a tolerance below one tick (1e-9, 1e-6): the two
\* numbers are the same decimal
Near(a, b) ==
    IF ~({a.k, b.k} \subseteq {"int", "float"}) THEN FALSE
    ELSE IF a.k = b.k THEN a.v = b.v
    ELSE LET f == IF a.k = "float" THEN a ELSE b
             z == IF a.k = "int" THEN a ELSE b
         IN  f.v % Unit = 0 /\ f.v \div Unit = z.v

-----------------------------------------------------------------------------
(* Distractors *)

\* magnitude = max(5, abs(correct) // 5)
Magnitude(correct) == Max(5, Abs(correct.v) \div 5)

\* one pass of the integer re-roll loop with delta drawn: the set opts after it
IntegerReroll(correct, delta, S) ==
    IF delta = 0 THEN S ELSE S \cup {PyInt(correct.v + delta)}

\* the seed {round(correct, decimals)} of the decimal branch
DecimalSeeds(correct, d) == RoundFloat(correct, Depth(d))

(***************************************************************************)
(* round(correct + noise, decimals) with noise = (random.random() - 0.5) *  *)
(* spread, spread = abs(correct) * 0.15 + 0.1, for the draw u.              *)
(* In ticks, with c = correct, R = RandSteps, w = 2u - R and g = Grid:      *)
(*   spread = (3|c| + 2 Unit) / 20,   noise = w (3|c| + 2 Unit) / (40 R),   *)
(*   (c + noise) / g = (40 R c + w (3|c| + 2 Unit)) / (40 R g).             *)
(* The quotient is taken in parts (|c| = den aq + ar, c = g cq + cr) so     *)
(* that no product leaves 32 bits; the integer part base moves the result   *)
(* and the fraction num/den is rounded.                                     *)
(***************************************************************************)
NoisyRound(correct, decimals, u) ==
    LET c == correct.v
        g == Grid(decimals)
        den == 40 * RandSteps * g
        aq == Abs(c) \div den
        ar == Abs(c) % den
        s0 == 3 * ar + 2 * Unit
        sq == 3 * aq + s0 \div den
        sr == s0 % den
        cq == c \div g
        cr == c % g
        w == 2 * u - RandSteps
        num == 40 * RandSteps * cr + w * sr
        base == cq + w * sq
        rs == IF u < RandSteps THEN RoundOutcomes(num, den, FALSE)
              ELSE RoundBelow(num, den)
    IN  {PyFloat((base + o) * g) : o \in rs}

\* every value one pass of a re-roll loop can add to opts
IntegerCandidates(correct) ==
    {PyInt(correct.v + delta) :
        delta \in RandInt(-Magnitude(correct), Magnitude(correct)) \ {0}}

DecimalCandidates(correct, d) ==
    UNION {NoisyRound(correct, Depth(d), u) : u \in RandomUnit}

-----------------------------------------------------------------------------
(* Arithmetic generators: the answers each can return *)

gen_add(d) ==
    LET A == IF d = "easy" THEN RandInt(20, 200)
             ELSE IF d = "medium" THEN RandInt(100, 900) ELSE RandInt(1000, 9999)
    IN  {PyInt(a + b) : a \in A, b \in A}

gen_sub(d) ==
    LET A == IF d = "easy" THEN RandInt(50, 300)
             ELSE IF d = "medium" THEN RandInt(500, 2000) ELSE RandInt(2000, 9999)
        B == IF d = "easy" THEN RandInt(10, 200)
             ELSE IF d = "medium" THEN RandInt(200, 1500) ELSE RandInt(500, 9000)
    IN  {PyInt(a - b) : a \in A, b \in B}

gen_mul(d) ==
    LET A == IF d = "easy" THEN RandInt(10, 80)
             ELSE IF d = "medium" THEN RandInt(20, 99) ELSE RandInt(100, 999)
        B == IF d = "easy" THEN RandInt(2, 9)
             ELSE IF d = "medium" THEN RandInt(10, 99) ELSE RandInt(10, 99)
    IN  {PyInt(a * b) : a \in A, b \in B}

\* easy: a / b with a = b * m is the float m
gen_div(d) ==
    IF d = "easy"
    THEN {PyFloat(m * Unit) : m \in RandInt(2, 50)}
    ELSE IF d = "medium"
    THEN UNION {round_to_difficulty(a, b, 0, d, TRUE) :
                    a \in RandInt(50, 800), b \in RandInt(2, 40)}
    ELSE UNION {round_to_difficulty(a, b, 0, d, TRUE) :
                    a \in RandInt(100, 4000), b \in RandInt(3, 90)}

\* dec is counted in hundredths (easy, medium) or thousandths (hard)
gen_decimal(d) ==
    IF d = "easy"
    THEN UNION {round_to_difficulty(h * m, 1, 2, d, IsDyadic(h, 100)) :
                    h \in {10, 20, 25, 50, 75}, m \in RandInt(20, 500)}
    ELSE IF d = "medium"
    THEN UNION {round_to_difficulty(h * m, 1, 2, d, IsDyadic(h, 100)) :
                    h \in {10, 20, 25, 33, 50, 66, 75}, m \in RandInt(50, 2000)}
    ELSE UNION {round_to_difficulty(x * m, 1, 3, d, IsDyadic(x, 1000)) :
                    x \in RandInt(1, 900), m \in RandInt(200, 20000)}

gen_square(d) ==
    LET A == IF d = "easy" THEN RandInt(5, 20)
             ELSE IF d = "medium" THEN RandInt(20, 50) ELSE RandInt(40, 120)
    IN  {PyInt(a * a) : a \in A}

gen_cube(d) ==
    LET A == IF d = "easy" THEN RandInt(2, 6)
             ELSE IF d = "medium" THEN RandInt(5, 12) ELSE RandInt(8, 20)
    IN  {PyInt(a * a * a) : a \in A}

ArithTopics ==
    {"addition", "subtraction", "multiplication", "division", "decimals",
     "square", "cube"}

ARITH(t, d) ==
    CASE t = "addition" -> gen_add(d)
      [] t = "subtraction" -> gen_sub(d)
      [] t = "multiplication" -> gen_mul(d)
      [] t = "division" -> gen_div(d)
      [] t = "decimals" -> gen_decimal(d)
      [] t = "square" -> gen_square(d)
      [] t = "cube" -> gen_cube(d)

-----------------------------------------------------------------------------
(* Approximation generators.  x = round(random.uniform(lo, hi), 3) is k       *)
(* thousandths, k drawn from the thousandths of [lo, hi].  A polynomial of   *)
(* x is computed in doubles, so a tie of its exact value rounds either way. *)

\* the x of gen_sqrt (the answer is (math.sqrt(x), tol))
gen_sqrt(d) ==
    LET X == IF d = "easy" THEN RandInt(5, 200)
             ELSE IF d = "medium" THEN RandInt(100, 500) ELSE RandInt(300, 2000)
    IN  {[k |-> "sqrt", v |-> x] : x \in X}

\* tol of gen_sqrt, in ticks
SqrtTol(d) ==
    IF d = "easy" THEN 5 * 10^3 ELSE IF d = "medium" THEN 3 * 10^3 ELSE 2 * 10^3

gen_ln(d) ==
    UNION {IF d = "easy" THEN round_to_difficulty(x, 1, 3, d, TRUE)
           ELSE IF d = "medium"
           THEN round_to_difficulty(2000 * x - x * x, 2000, 3, d, FALSE)
           ELSE round_to_difficulty(3000000 * x - 1500 * x * x + x * x * x,
                                    3000000, 3, d, FALSE) :
           x \in RandInt(10, 500)}

\* hard: 1000 + x is whole thousandths and x^2/2 + x^3/6 is rounded onto it
gen_exp(d) ==
    UNION {IF d = "easy" THEN round_to_difficulty(1000 + x, 1, 3, d, TRUE)
           ELSE IF d = "medium"
           THEN round_to_difficulty(2000000 + 2000 * x + x * x, 2000, 3, d, FALSE)
           ELSE {PyFloat((1000 + x + o) * Grid(3)) :
                    o \in RoundOutcomes(3000 * x * x + x * x * x, 6000000, FALSE)} :
           x \in RandInt(-400, 400)}

gen_inv(d) ==
    UNION {IF d = "easy" THEN round_to_difficulty(1000 - x, 1, 3, d, TRUE)
           ELSE IF d = "medium"
           THEN round_to_difficulty(1000000 - 1000 * x + x * x, 1000, 3, d, FALSE)
           ELSE round_to_difficulty(1000000, 1000 + x, 3, d, FALSE) :
           x \in RandInt(50, 1000)}

(***************************************************************************)
(* math.log(1 + r) is not computed: it is bracketed.  With U the value of   *)
(* r - r^2/2 + r^3/3: for r >= 0, r - r^2/2 <= log(1+r) <= U; for r < 0,    *)
(* U - r^4/2 < log(1+r) < U, and r^4/2 < 0.001 for |r| <= 0.2.  The answer  *)
(* is any rounding between the roundings of the two ends.                   *)
(***************************************************************************)
LogRounded(x) ==
    LET up == RoundOutcomes(3000000 * x - 1500 * x * x + x * x * x,
                            3000000, FALSE)
        lo == IF x >= 0 THEN RoundOutcomes(2000 * x - x * x, 2000, FALSE)
              ELSE {o - 1 : o \in up}
    IN  {PyFloat(o * Grid(3)) :
            o \in {y \in -1000..1000 :
                     /\ \E a \in lo : a <= y
                     /\ \E b \in up : y <= b}}

gen_logret(d) ==
    UNION {IF d = "easy" THEN round_to_difficulty(x, 1, 3, d, TRUE)
           ELSE IF d = "medium"
           THEN round_to_difficulty(2000 * x - x * x, 2000, 3, d, FALSE)
           ELSE LogRounded(x) :
           x \in RandInt(-200, 200)}

ApproxTopics == {"sqrt", "ln", "exp", "inverse", "logret"}

APPROX(t, d) ==
    CASE t = "sqrt" -> gen_sqrt(d)
      [] t = "ln" -> gen_ln(d)
      [] t = "exp" -> gen_exp(d)
      [] t = "inverse" -> gen_inv(d)
      [] t = "logret" -> gen_logret(d)

-----------------------------------------------------------------------------
(* Probability *)

ProbModes == {"coin", "urn", "interval", "cond"}

\* coin: round((0.5)**m, 5); the k of the prompt is not used
ProbCoin == UNION {PyRound(1, 2^m, 0, 5, TRUE) : m \in RandInt(3, 10)}

\* a variant of the urn answer that keeps five decimals
ProbUrnFive ==
    UNION {PyRound(r, r + b, 0, 5, TRUE) : r \in RandInt(3, 15), b \in RandInt(3, 15)}

ProbUrn ==
    UNION {PyRound(r, r + b, 0, 4, TRUE) : r \in RandInt(3, 15), b \in RandInt(3, 15)}

\* a, b = random.random(), random.random(); round(hi - lo, 4)
ProbInterval ==
    UNION {LET lo == Min(a, b)
               hi == Max(a, b)
           IN  IF hi = RandSteps /\ lo < RandSteps
               THEN {PyFloat(o * Grid(4)) :
                        o \in RoundBelow((hi - lo) * 10^4, RandSteps)}
               ELSE PyRound(hi - lo, RandSteps, 0, 4, TRUE) :
           a \in RandomUnit, b \in RandomUnit}

ProbCond ==
    UNION {PyRound(a, a + b, 0, 4, TRUE) : a \in RandInt(1, 9), b \in RandInt(1, 9)}

\* the answers of gen_prob in sub-mode m (d is not read)
gen_prob(m, d) ==
    CASE m = "coin" -> ProbCoin
      [] m = "urn" -> ProbUrn
      [] m = "interval" -> ProbInterval
      [] m = "cond" -> ProbCond

-----------------------------------------------------------------------------
(* One question of a multiple-choice runner, step by step: the generator,  *)
(* mcq_options with its re-roll loop, and the judgement of the choice.      *)
(* runner = "mcq_options" is a direct call mcq_options(ans, difficulty).    *)

\* the list n of option lists random.shuffle can leave
Shuffles(S) ==
    {s \in [1..Cardinality(S) -> S] :
        \A a, b \in 1..Cardinality(S) : a # b => s[a] # s[b]}

\* arguments of the direct calls
DirectAnswers ==
    {PyInt(0), PyInt(-7), PyInt(12), PyInt(20000),
     PyFloat(0), PyFloat(5 * Unit), PyFloat(-25000), PyFloat(12500),
     PyFloat(42860), PyFloat(314159), PyFloat(-1250000), PyFloat(99990)}

McqRunners == {"run_eighty", "run_approximations", "run_probability"}

Idle ==
    /\ n = 0 /\ i = 0 /\ score = 0 /\ issued = 0 /\ answered = 0
    /\ elapsed = 0 /\ hits = {} /\ typed = Blocked

QuestionInit ==
    /\ Idle
    /\ difficulty \in Difficulties
    /\ opts = {} /\ ret = <<>> /\ out = <<>> /\ topic = "" /\ valid = <<>>
    /\ \/ runner \in McqRunners /\ pc = "generate" /\ ans = None
       \/ runner = "mcq_options" /\ pc = "mcq_options" /\ ans \in DirectAnswers

UNCHANGED_session == UNCHANGED <<n, i, score, issued, answered, elapsed, hits, valid, typed>>

\* topic = random.choice(topics); Q, ans = GEN[topic](difficulty)
Generate ==
    /\ pc = "generate"
    /\ \/ /\ runner = "run_eighty"
          /\ \E t \in ArithTopics : \E a \in ARITH(t, difficulty) :
                topic' = t /\ ans' = a /\ pc' = "mcq_options"
       \/ /\ runner = "run_approximations"
          /\ \E t \in ApproxTopics : \E a \in APPROX(t, difficulty) :
                /\ topic' = t /\ ans' = a
                /\ pc' = IF t = "sqrt" THEN "free_answer" ELSE "mcq_options"
       \/ /\ runner = "run_probability"
          /\ \E m \in ProbModes : \E a \in gen_prob(m, difficulty) :
                topic' = m /\ ans' = a /\ pc' = "mcq_options"
    /\ UNCHANGED <<runner, difficulty, opts, ret, out>>
    /\ UNCHANGED_session

\* mcq_options: the branch, and the seed of opts
McqOptions ==
    /\ pc = "mcq_options"
    /\ IF is_integer(ans)
       THEN opts' = {ToInt(ans)} /\ pc' = "integer_loop"
       ELSE (\E seed \in DecimalSeeds(ans, difficulty) : opts' = {seed})
            /\ pc' = "decimal_loop"
    /\ UNCHANGED <<runner, difficulty, topic, ans, ret, out>>
    /\ UNCHANGED_session

\* one pass of `while len(opts) < n` in generate_integer_distractors
IntegerDraw ==
    /\ pc = "integer_loop"
    /\ Cardinality(opts) < 4
    /\ \E delta \in RandInt(-Magnitude(ToInt(ans)), Magnitude(ToInt(ans))) :
          opts' = IntegerReroll(ToInt(ans), delta, opts)
    /\ UNCHANGED <<runner, pc, difficulty, topic, ans, ret, out>>
    /\ UNCHANGED_session

\* one pass of `while len(opts) < n` in generate_decimal_distractors
DecimalDraw ==
    /\ pc = "decimal_loop"
    /\ Cardinality(opts) < 4
    /\ \E u \in RandomUnit : \E cand \in NoisyRound(ans, Depth(difficulty), u) :
          opts' = opts \cup {cand}
    /\ UNCHANGED <<runner, pc, difficulty, topic, ans, ret, out>>
    /\ UNCHANGED_session

\* opts = list(opts); random.shuffle(opts); return opts
McqReturn ==
    /\ pc \in {"integer_loop", "decimal_loop"}
    /\ Cardinality(opts) >= 4
    /\ ret' \in Shuffles(opts)
    /\ pc' = IF runner = "mcq_options" THEN "returned" ELSE "choose"
    /\ UNCHANGED <<runner, difficulty, topic, ans, opts, out>>
    /\ UNCHANGED_session

\* the indices k (1..4) whose option is judged correct
Hits(options, answer) == {k \in DOMAIN options : Near(options[k], answer)}

\* the choice 1..4 is read and judged; run_eighty first evaluates
\* opts.index(ans), which raises ValueError when no option equals ans
Choose ==
    /\ pc = "choose"
    /\ \E c \in 1..4 :
          IF runner = "run_eighty" /\ Hits(ret, ans) = {}
          THEN pc' = "raised" /\ out' = <<Say("ValueError")>>
          ELSE /\ pc' = "judged"
               /\ out' = IF c \in Hits(ret, ans) THEN <<Say("Correct!")>> ELSE <<Say("Wrong.")>>
    /\ UNCHANGED <<runner, difficulty, topic, ans, opts, ret>>
    /\ UNCHANGED_session

QuestionNext ==
    \/ Generate
    \/ McqOptions
    \/ IntegerDraw
    \/ DecimalDraw
    \/ McqReturn
    \/ Choose

SpecQuestion == QuestionInit /\ [][QuestionNext]_vars

-----------------------------------------------------------------------------
(* Text: a line of input is a sequence of one-character strings.           *)

Upper == <<"A","B","C","D","E","F","G","H","I","J","K","L","M",
           "N","O","P","Q","R","S","T","U","V","W","X","Y","Z">>
Lowers == <<"a","b","c","d","e","f","g","h","i","j","k","l","m",
            "n","o","p","q","r","s","t","u","v","w","x","y","z">>
DigitChars == <<"0","1","2","3","4","5","6","7","8","9">>

\* str.lower()
LowerChar(c) ==
    IF \E k \in DOMAIN Upper : Upper[k] = c
    THEN Lowers[CHOOSE k \in DOMAIN Upper : Upper[k] = c]
    ELSE c

Lower(s) == [k \in DOMAIN s |-> LowerChar(s[k])]

\* str.strip(): leading and trailing blanks removed
RECURSIVE Strip(_)
Strip(s) ==
    IF s = <<>> THEN s
    ELSE IF Head(s) = " " THEN Strip(Tail(s))
    ELSE IF s[Len(s)] = " " THEN Strip(SubSeq(s, 1, Len(s) - 1))
    ELSE s

IsDigit(c) == \E k \in DOMAIN DigitChars : DigitChars[k] = c
DigitVal(c) == (CHOOSE k \in DOMAIN DigitChars : DigitChars[k] = c) - 1
AllDigits(s) == \A k \in DOMAIN s : IsDigit(s[k])

\* the number a string of digits writes
RECURSIVE DigitsValue(_)
DigitsValue(s) ==
    IF s = <<>> THEN 0
    ELSE 10 * DigitsValue(SubSeq(s, 1, Len(s) - 1)) + DigitVal(s[Len(s)])

\* the decimal digits of a natural number
RECURSIVE FormatNat(_)
FormatNat(m) ==
    IF m < 10 THEN <<DigitChars[m + 1]>>
    ELSE FormatNat(m \div 10) \o <<DigitChars[(m % 10) + 1]>>

\* str(m) of an int
FormatInt(m) == IF m < 0 THEN <<"-">> \o FormatNat(-m) ELSE FormatNat(m)

\* the digits of a fraction of t ticks (0 <= t < Unit), trailing zeros dropped
RECURSIVE FormatFrac(_, _)
FormatFrac(t, width) ==
    IF width = 1 \/ t % 10 # 0
    THEN LET d == FormatNat(t)
         IN  [k \in 1..(width - Len(d)) |-> "0"] \o d
    ELSE FormatFrac(t \div 10, width - 1)

\* a decimal a user types for the number x, such as -12.5
FormatNumber(x) ==
    IF x.k = "int" THEN FormatInt(x.v)
    ELSE (IF x.v < 0 THEN <<"-">> ELSE <<>>)
         \o FormatNat(Abs(x.v) \div Unit) \o <<".">>
         \o FormatFrac(Abs(x.v) % Unit, 5)

Unsigned(t) == IF t # <<>> /\ Head(t) \in {"+", "-"} THEN Tail(t) ELSE t
Sign(t) == IF t # <<>> /\ Head(t) = "-" THEN -1 ELSE 1

\* int(s): [ok |-> TRUE, v |-> value], or ok = FALSE when int() raises ValueError
ParseInt(s) ==
    LET t == Unsigned(Strip(s))
    IN  IF t # <<>> /\ AllDigits(t)
        THEN [ok |-> TRUE, v |-> Sign(Strip(s)) * DigitsValue(t)]
        ELSE [ok |-> FALSE, v |-> 0]

\* the place of the first "." of t, or 0
DotAt(t) ==
    IF \E k \in DOMAIN t : t[k] = "."
    THEN CHOOSE k \in DOMAIN t : t[k] = "." /\ \A j \in 1..(k - 1) : t[j] # "."
    ELSE 0

\* a variant of float(s) that reads any text as 0.0
ParseFloatLenient(s) == [ok |-> TRUE, x |-> PyInt(0)]

(***************************************************************************)
(* float(s): [ok |-> TRUE, x |-> the float], or ok = FALSE when float()     *)
(* raises ValueError.  Accepted: blanks around, a sign, digits with at most *)
(* one "." (up to five digits after it) and at least one digit, and nan /   *)
(* inf / infinity in any case.  Exponents are not typed in this model.      *)
(* A float with an integral value is carried by that value (it compares     *)
(* with the answers as the integer does), so that 32 bits suffice.          *)
(***************************************************************************)
ParseFloat(s) ==
    LET t == Unsigned(Strip(s))
        dot == DotAt(t)
        whole == IF dot = 0 THEN t ELSE SubSeq(t, 1, dot - 1)
        frac == IF dot = 0 THEN <<>> ELSE SubSeq(t, dot + 1, Len(t))
    IN  IF Lower(t) \in {<<"n","a","n">>, <<"i","n","f">>,
                         <<"i","n","f","i","n","i","t","y">>}
        THEN [ok |-> TRUE, x |-> [k |-> "nonfinite", v |-> 0]]
        ELSE IF /\ AllDigits(whole) /\ AllDigits(frac)
                /\ Len(whole) + Len(frac) > 0
                /\ Len(frac) <= 5
        THEN [ok |-> TRUE,
              x |-> IF DigitsValue(frac) = 0
                    THEN PyInt(Sign(Strip(s)) * DigitsValue(whole))
                    ELSE PyFloat(Sign(Strip(s)) *
                           (DigitsValue(whole) * Unit
                              + DigitsValue(frac) * 10^(5 - Len(frac))))]
        ELSE [ok |-> FALSE, x |-> None]

-----------------------------------------------------------------------------
(* get_choice *)

\* valid_lower = [v.lower() for v in valid]
ValidLower(validList) == {Lower(validList[k]) : k \in DOMAIN validList}

\* ans = input(prompt).strip().lower()
Normalize(line) == Lower(Strip(line))

\* a variant that compares without lower-casing the line
get_choice_exact(line, validList) == Strip(line) \in ValidLower(validList)

\* if ans in valid_lower: return ans
get_choice_accepts(line, validList) == Normalize(line) \in ValidLower(validList)

Spell(w) ==
    CASE w = "easy" -> <<"e","a","s","y">>
      [] w = "medium" -> <<"m","e","d","i","u","m">>
      [] w = "hard" -> <<"h","a","r","d">>
      [] w = "q" -> <<"q">>
      [] w = "quit" -> <<"q","u","i","t">>

DifficultyList == <<Spell("easy"), Spell("medium"), Spell("hard")>>
MenuList == <<<<"1">>, <<"2">>, <<"3">>, <<"4">>, <<"5">>>>
McqList == <<<<"1">>, <<"2">>, <<"3">>, <<"4">>>>
DrillList == <<<<"1">>, <<"2">>, <<"3">>, <<"4">>, <<"q">>>>

-----------------------------------------------------------------------------
(* What mcq_options can return, taken at once (the session runners call it  *)
(* inside one step).  The re-roll loop ends with opts = the seed and three  *)
(* other candidates, and never ends when fewer than three exist; the shuffle *)
(* leaves the options in any order.                                          *)

\* [hang |-> the loop never ends, hits |-> the indices judged correct]:
\* j of the three other candidates kept equal correct, and own says whether
\* the seed does
McqOutcomes(seed, cands, correct) ==
    LET others == cands \ {seed}
        match == {x \in others : Near(x, correct)}
        own == IF Near(seed, correct) THEN 1 ELSE 0
    IN  IF Cardinality(others) < 3
        THEN {[hang |-> TRUE, hits |-> {}]}
        ELSE {[hang |-> FALSE, hits |-> H] :
                 H \in {K \in SUBSET (1..4) :
                           \E j \in 0..3 :
                              /\ j <= Cardinality(match)
                              /\ 3 - j <= Cardinality(others \ match)
                              /\ Cardinality(K) = own + j}}

HitOutcomes(correct, d) ==
    IF is_integer(correct)
    THEN McqOutcomes(ToInt(correct), IntegerCandidates(ToInt(correct)), correct)
    ELSE UNION {McqOutcomes(seed, DecimalCandidates(correct, d), correct) :
                   seed \in DecimalSeeds(correct, d)}

\* topic = random.choice(topics); Q, ans = ARITH[topic](difficulty)
ArithAnswers ==
    [d \in Difficulties |-> UNION {ARITH(t, d) : t \in ArithTopics}]

DrillOutcomes ==
    [d \in Difficulties |-> UNION {HitOutcomes(a, d) : a \in ArithAnswers[d]}]

ApproxOutcomes ==
    [t \in ApproxTopics \ {"sqrt"}, d \in Difficulties |->
        UNION {HitOutcomes(a, d) : a \in APPROX(t, d)}]

ProbOutcomes ==
    [d \in Difficulties |->
        UNION {HitOutcomes(a, d) : a \in UNION {gen_prob(m, d) : m \in ProbModes}}]

-----------------------------------------------------------------------------
(* The session runners and the main menu.                                  *)
(*                                                                         *)
(* The program runs from one input() to the next without being observed,   *)
(* so a step is either input() returning a line (ReadLine) or the code      *)
(* that handles the line, up to the next input() call.  out is the list of  *)
(* what the last step printed.  Time passes while run_eighty waits for a    *)
(* line.                                                                    *)

\* the instants the clock is sampled at (seconds since t0)
ClockSamples == {0, Limit, Limit + 1}

\* a variant in which the deadline is not looked at
DrillTimeUpNever(e) == FALSE

\* if time.time()-t0 > limit
DrillTimeUp(e) == e > Limit

\* floor(sqrt(100 x)): the tenths of sqrt(x)
SqrtTenths(x) == CHOOSE t \in 0..500 : t * t <= 100 * x /\ 100 * x < (t + 1) * (t + 1)

(***************************************************************************)
(* The sign of A^2 - x * 10^10 for ticks A >= 0 and an integer x, with no   *)
(* product above 32 bits: A = 1000 a + b, D = 10^4 x - a^2, and             *)
(* A^2 - 10^10 x = 2000 a b + b^2 - 10^6 D.                                 *)
(***************************************************************************)
SquareCmp(A, x) ==
    LET a == A \div 1000
        b == A % 1000
        D == 10^4 * x - a * a
        low == 2 * a * b + (b * b) \div 1000
    IN  IF D < 0 THEN 1
        ELSE IF D = 0 THEN (IF b = 0 THEN 0 ELSE 1)
        ELSE IF D >= 2 * a + 2 THEN -1
        ELSE IF low < 1000 * D THEN -1
        ELSE IF low = 1000 * D /\ (b * b) % 1000 = 0 THEN 0
        ELSE 1

\* abs(u - true) <= tol with true = math.sqrt(x): the truth values it can
\* have (on the boundary the doubles decide)
WithinTol(u, x, tol) ==
    IF u.k \notin {"int", "float"} THEN {FALSE}
    ELSE IF Abs(u.v) > (IF u.k = "int" THEN 100 ELSE 100 * Unit) THEN {FALSE}
    ELSE LET uv == IF u.k = "int" THEN u.v * Unit ELSE u.v
             hi == uv + tol
             lo == uv - tol
             above == IF hi < 0 THEN -1 ELSE SquareCmp(hi, x)
             below == IF lo <= 0 THEN -1 ELSE SquareCmp(lo, x)
         IN  IF above < 0 \/ below > 0 THEN {FALSE}
             ELSE IF above = 0 \/ below = 0 THEN {TRUE, FALSE}
             ELSE {TRUE}

\* the lines typed at a prompt
Keyboard ==
    CASE pc = "menu" ->
            {<<"1">>, <<"2">>, <<"3">>, <<"4">>, <<"5">>, <<" ", "2">>, <<"x">>}
      [] pc = "difficulty" ->
            {Spell("easy"), Spell("medium"), Spell("hard"),
             <<" ", "H", "a", "r", "d", " ">>, <<"x">>}
      [] pc = "count" ->
            {FormatInt(c) : c \in -1..MaxCount}
               \cup {<<" ", "1", " ">>, <<"1", ".", "0">>, <<>>}
      [] pc = "answer" /\ runner = "run_classic" ->
            {FormatNumber(ans), <<" ">> \o FormatNumber(ans) \o <<" ">>,
             FormatNumber([ans EXCEPT !.v = @ + 1]),
             Spell("q"), Spell("quit"), <<"q", " ">>, <<"Q">>, <<"x">>, <<>>,
             <<"n", "a", "n">>}
      [] pc = "answer" /\ runner = "run_eighty" ->
            {<<"1">>, <<"4">>, <<" ", "Q", " ">>, <<"x">>}
      [] pc = "answer" /\ runner = "run_approximations" /\ topic = "sqrt" ->
            {FormatNumber(PyFloat(SqrtTenths(ans.v) * 10^4)),
             FormatNumber(PyFloat((SqrtTenths(ans.v) + 1) * 10^4)),
             FormatNumber(PyInt(SqrtTenths(ans.v) \div 10 + 2)),
             Spell("q"), <<"x">>, <<>>}
      [] OTHER ->
            {<<"1">>, <<"2">>, <<"3">>, <<"4">>, <<"q">>, <<" ", "3">>}

Init ==
    /\ runner = "main" /\ pc = "menu"
    /\ difficulty = "" /\ n = 0 /\ i = 0 /\ score = 0
    /\ issued = 0 /\ answered = 0 /\ elapsed = 0
    /\ topic = "" /\ ans = None /\ opts = {} /\ ret = <<>> /\ hits = {}
    /\ valid = MenuList /\ typed = Blocked
    /\ out = <<Say("MAIN MENU")>>

Prompts == {"menu", "difficulty", "count", "answer"}

\* input() returns the line typed
ReadLine ==
    /\ pc \in Prompts
    /\ typed = Blocked
    /\ typed' \in Keyboard
    /\ out' = <<>>
    /\ UNCHANGED <<runner, pc, difficulty, n, i, score, issued, answered, elapsed,
                   topic, ans, opts, ret, hits, valid>>

\* time passes while run_eighty waits in input()
Tick ==
    /\ runner = "run_eighty" /\ pc = "answer" /\ typed = Blocked
    /\ elapsed' \in {c \in ClockSamples : c > elapsed}
    /\ out' = <<>>
    /\ UNCHANGED <<runner, pc, difficulty, n, i, score, issued, answered,
                   topic, ans, opts, ret, hits, valid, typed>>

\* get_choice: the line is not allowed; print the list and ask again
Reprompt ==
    /\ pc \in Prompts /\ valid # <<>>
    /\ typed # Blocked
    /\ ~get_choice_accepts(typed, valid)
    /\ typed' = Blocked
    /\ out' = <<[text |-> "Please choose from", list |-> valid]>>
    /\ UNCHANGED <<runner, pc, difficulty, n, i, score, issued, answered, elapsed,
                   topic, ans, opts, ret, hits, valid>>

\* the SUMMARY of a runner is printed, the runner returns (its question, its
\* difficulty and its clock are gone; the counters stay as the summary read
\* them until a runner starts) and main() asks for the next mode
Summary(sc, total, printed) ==
    /\ runner' = "main" /\ pc' = "menu" /\ valid' = MenuList /\ typed' = Blocked
    /\ out' = printed \o <<[text |-> "Score", score |-> sc, total |-> total],
                          Say("MAIN MENU")>>
    /\ topic' = "" /\ ans' = None /\ hits' = {}
    /\ difficulty' = "" /\ elapsed' = 0

\* the body of iteration k up to its input() call: the question of runner r
Issue(r, d, iss, printed) ==
    /\ runner' = r /\ typed' = Blocked
    /\ \/ /\ r = "run_classic"
          /\ ans' \in ArithAnswers[d]
          /\ topic' = "" /\ hits' = {} /\ valid' = <<>>
          /\ pc' = "answer" /\ issued' = iss + 1 /\ out' = printed \o <<Say("Question")>>
       \/ /\ r = "run_approximations"
          /\ ans' \in gen_sqrt(d)
          /\ topic' = "sqrt" /\ hits' = {} /\ valid' = <<>>
          /\ pc' = "answer" /\ issued' = iss + 1 /\ out' = printed \o <<Say("Question")>>
       \/ /\ r \in McqRunners
          /\ \E t \in IF r = "run_approximations" THEN ApproxTopics \ {"sqrt"} ELSE {""} :
             \E o \in CASE r = "run_eighty" -> DrillOutcomes[d]
                        [] r = "run_approximations" -> ApproxOutcomes[t, d]
                        [] r = "run_probability" -> ProbOutcomes[d] :
                /\ topic' = t /\ ans' = None /\ hits' = o.hits
                /\ IF o.hang
                   THEN /\ pc' = "mcq_loop" /\ valid' = <<>>
                        /\ issued' = iss /\ out' = printed
                   ELSE /\ pc' = "answer"
                        /\ valid' = IF r = "run_eighty" THEN DrillList ELSE McqList
                        /\ issued' = iss + 1 /\ out' = printed \o <<Say("Question")>>

\* the for loop reaches iteration k
Iterate(r, d, cnt, k, sc, iss, answ, e, printed) ==
    /\ n' = cnt /\ score' = sc /\ answered' = answ
    /\ opts' = opts /\ ret' = ret
    /\ IF k > (IF r = "run_eighty" THEN DrillLen ELSE cnt)
       THEN /\ i' = k - 1 /\ issued' = iss
            /\ Summary(sc, IF r = "run_eighty" THEN k - 1 ELSE cnt, printed)
       ELSE IF r = "run_eighty" /\ DrillTimeUp(e)
       THEN /\ i' = k /\ issued' = iss
            /\ Summary(sc, k, printed \o <<Say("TIME IS UP!")>>)
       ELSE /\ i' = k /\ difficulty' = d /\ elapsed' = e
            /\ Issue(r, d, iss, printed)

\* break: the loop is left at iteration i
Break(printed) ==
    /\ UNCHANGED <<n, i, score, issued, answered, opts, ret>>
    /\ Summary(score, IF runner = "run_eighty" THEN i ELSE n, printed)

\* an unhandled exception ends the program
Raise(what) ==
    /\ pc' = "raised" /\ out' = <<Say(what)>> /\ typed' = Blocked
    /\ UNCHANGED <<runner, difficulty, n, i, score, issued, answered, elapsed,
                   topic, ans, opts, ret, hits, valid>>

\* main(): c = get_choice("Select (1-5): ", ...)
MainMenu ==
    /\ pc = "menu" /\ typed # Blocked
    /\ get_choice_accepts(typed, valid)
    /\ LET c == Normalize(typed)
       IN  IF c = <<"5">>
           THEN /\ runner' = "exit" /\ pc' = "done" /\ valid' = <<>>
                /\ out' = <<Say("Good luck on your next interview!")>>
                /\ UNCHANGED <<difficulty, n, i, score, issued, answered, elapsed,
                               topic, ans, hits>>
           ELSE /\ runner' = CASE c = <<"1">> -> "run_classic"
                                [] c = <<"2">> -> "run_eighty"
                                [] c = <<"3">> -> "run_approximations"
                                [] c = <<"4">> -> "run_probability"
                /\ pc' = "difficulty" /\ valid' = DifficultyList
                /\ out' = <<Say("===")>>
                /\ difficulty' = "" /\ n' = 0 /\ i' = 0 /\ score' = 0
                /\ issued' = 0 /\ answered' = 0 /\ elapsed' = 0
                /\ topic' = "" /\ ans' = None /\ hits' = {}
    /\ typed' = Blocked
    /\ UNCHANGED <<opts, ret>>

\* difficulty = get_choice(...); run_eighty then starts its clock and loop
ChooseDifficulty ==
    /\ pc = "difficulty" /\ typed # Blocked
    /\ get_choice_accepts(typed, valid)
    /\ LET d == CHOOSE w \in Difficulties : Spell(w) = Normalize(typed)
       IN  IF runner = "run_eighty"
           THEN Iterate(runner, d, 0, 1, 0, 0, 0, 0, <<>>)
           ELSE /\ difficulty' = d /\ pc' = "count" /\ valid' = <<>>
                /\ typed' = Blocked /\ out' = <<>>
                /\ UNCHANGED <<runner, n, i, score, issued, answered, elapsed,
                               topic, ans, opts, ret, hits>>

\* n = int(input("How many questions? ")); the loop starts
ReadCount ==
    /\ pc = "count" /\ typed # Blocked
    /\ IF ParseInt(typed).ok
       THEN Iterate(runner, difficulty, ParseInt(typed).v, 1, 0, 0, 0, elapsed, <<>>)
       ELSE Raise("ValueError")

\* run_classic: user = input("Your answer: ").strip() and the rest of the body
ClassicAnswer ==
    /\ runner = "run_classic" /\ pc = "answer" /\ typed # Blocked
    /\ LET user == Strip(typed)
           u == ParseFloat(user)
       IN  IF user \in {Spell("q"), Spell("quit")}
           THEN Break(<<>>)
           ELSE IF ~u.ok
           THEN Iterate(runner, difficulty, n, i + 1, score, issued, answered,
                        elapsed, <<Say("Invalid.")>>)
           ELSE IF Near(u.x, ans)
           THEN Iterate(runner, difficulty, n, i + 1, score + 1, issued,
                        answered + 1, elapsed, <<Say("Correct!")>>)
           ELSE Iterate(runner, difficulty, n, i + 1, score, issued,
                        answered + 1, elapsed, <<Say("Wrong.")>>)

\* a variant that counts every choice as a point
JudgeGenerous(c) ==
    Iterate(runner, difficulty, n, i + 1, score + 1, issued, answered + 1,
            elapsed, <<Say(IF DigitVal(c[1]) \in hits THEN "Correct!" ELSE "Wrong.")>>)

\* the choice c of a multiple-choice question is judged
Judge(c) ==
    IF DigitVal(c[1]) \in hits
    THEN Iterate(runner, difficulty, n, i + 1, score + 1, issued, answered + 1,
                 elapsed, <<Say("Correct!")>>)
    ELSE Iterate(runner, difficulty, n, i + 1, score, issued, answered + 1,
                 elapsed, <<Say("Wrong.")>>)

\* run_eighty: choice = get_choice(...) and the rest of the body;
\* opts.index(ans) raises ValueError when no option equals ans
DrillAnswer ==
    /\ runner = "run_eighty" /\ pc = "answer" /\ typed # Blocked
    /\ get_choice_accepts(typed, valid)
    /\ LET choice == Normalize(typed)
       IN  IF choice = <<"q">> THEN Break(<<>>)
           ELSE IF hits = {} THEN Raise("ValueError")
           ELSE Judge(choice)

\* a variant in which float() is guarded as in run_classic
SqrtAnswerGuarded ==
    /\ runner = "run_approximations" /\ pc = "answer" /\ topic = "sqrt"
    /\ typed # Blocked
    /\ LET u == ParseFloat(typed)
       IN  IF ~u.ok
           THEN Iterate(runner, difficulty, n, i + 1, score, issued, answered,
                        elapsed, <<Say("Invalid.")>>)
           ELSE \E good \in WithinTol(u.x, ans.v, SqrtTol(difficulty)) :
                   IF good
                   THEN Iterate(runner, difficulty, n, i + 1, score + 1, issued,
                                answered + 1, elapsed, <<Say("Good! Within tolerance.")>>)
                   ELSE Iterate(runner, difficulty, n, i + 1, score, issued,
                                answered + 1, elapsed, <<Say("Too far.")>>)

\* run_approximations: u = float(input("Your approximation: ")) is not guarded
SqrtAnswer ==
    /\ runner = "run_approximations" /\ pc = "answer" /\ topic = "sqrt"
    /\ typed # Blocked
    /\ LET u == ParseFloat(typed)
       IN  IF ~u.ok THEN Raise("ValueError")
           ELSE \E good \in WithinTol(u.x, ans.v, SqrtTol(difficulty)) :
                   IF good
                   THEN Iterate(runner, difficulty, n, i + 1, score + 1, issued,
                                answered + 1, elapsed, <<Say("Good! Within tolerance.")>>)
                   ELSE Iterate(runner, difficulty, n, i + 1, score, issued,
                                answered + 1, elapsed, <<Say("Too far.")>>)

\* run_approximations (not sqrt) and run_probability: c = get_choice(...)
McqAnswer ==
    /\ runner \in {"run_approximations", "run_probability"}
    /\ pc = "answer" /\ topic # "sqrt" /\ typed # Blocked
    /\ get_choice_accepts(typed, valid)
    /\ Judge(Normalize(typed))

Next ==
    \/ ReadLine
    \/ Tick
    \/ Reprompt
    \/ MainMenu
    \/ ChooseDifficulty
    \/ ReadCount
    \/ ClassicAnswer
    \/ DrillAnswer
    \/ SqrtAnswer
    \/ McqAnswer

Spec == Init /\ [][Next]_vars

-----------------------------------------------------------------------------
(* get_choice on its own: one call, the lines typed one after the other.    *)

\* the lists of allowed answers the call is made with
ChoiceLists ==
    {DifficultyList, MenuList, McqList, DrillList,
     <<<<"Y", "e", "s">>, <<"N", "o">>>>}

\* the lines typed at the prompt
ChoiceLines ==
    {<<"1">>, <<"2">>, <<"4">>, <<"5">>, <<"6">>, <<"1", "2">>, <<" ", "3", " ">>,
     <<"q">>, <<"Q">>, <<" ", "q">>, <<"x">>, <<>>, <<" ">>,
     Spell("easy"), <<"E", "A", "S", "Y">>, <<" ", "H", "a", "r", "d", " ">>,
     Spell("medium"), <<"m", "e", "d">>, <<"e", " ", "a", "s", "y">>,
     <<"y", "e", "s">>, <<"Y", "e", "s">>, <<"N", "O", " ">>, <<"n">>,
     Spell("quit")}

ChoiceInit ==
    /\ Idle
    /\ runner = "get_choice" /\ pc = "prompt"
    /\ valid \in ChoiceLists
    /\ difficulty = "" /\ topic = "" /\ ans = None
    /\ opts = {} /\ ret = <<>> /\ out = <<>>

\* c = input(prompt)
ChoiceRead ==
    /\ pc = "prompt" /\ typed = Blocked
    /\ typed' \in ChoiceLines
    /\ out' = <<>>
    /\ UNCHANGED <<runner, pc, difficulty, n, i, score, issued, answered, elapsed,
                   topic, ans, opts, ret, hits, valid>>

\* print("Please choose from:", ", ".join(valid)) and the loop goes round
ChoiceReject ==
    /\ pc = "prompt" /\ typed # Blocked
    /\ ~get_choice_accepts(typed, valid)
    /\ typed' = Blocked
    /\ out' = <<[text |-> "Please choose from", list |-> valid]>>
    /\ UNCHANGED <<runner, pc, difficulty, n, i, score, issued, answered, elapsed,
                   topic, ans, opts, ret, hits, valid>>

\* return c
ChoiceReturn ==
    /\ pc = "prompt" /\ typed # Blocked
    /\ get_choice_accepts(typed, valid)
    /\ ret' = <<Normalize(typed)>>
    /\ pc' = "returned"
    /\ out' = <<>>
    /\ UNCHANGED <<runner, difficulty, n, i, score, issued, answered, elapsed,
                   topic, ans, opts, hits, valid, typed>>

ChoiceNext ==
    \/ ChoiceRead
    \/ ChoiceReject
    \/ ChoiceReturn

SpecChoice == ChoiceInit /\ [][ChoiceNext]_vars

-----------------------------------------------------------------------------
(* Properties of one question (SpecQuestion)                               *)

\* mcq_options has returned the list ret
Returned == pc \in {"returned", "choose", "judged", "raised"}

\* C1: whenever mcq_options(correct, difficulty) returns, the list has exactly
\* 4 values, no two of them equal, and exactly one of them equals correct
\* within 1e-9.
C1_OptionSet ==
    Returned =>
        /\ Len(ret) = 4
        /\ \A a, b \in DOMAIN ret : a # b => ~Near(ret[a], ret[b])
        /\ Cardinality(Hits(ret, ans)) = 1

\* C2: in either re-roll loop of mcq_options the values the loop can hold
\* (the seed and every value a pass can add) are at least 4, so that with
\* fair draws the loop ends.
C2_FourCandidates ==
    /\ pc = "integer_loop" =>
          Cardinality(opts \cup {ToInt(ans)} \cup IntegerCandidates(ToInt(ans))) >= 4
    /\ pc = "decimal_loop" =>
          Cardinality(opts \cup DecimalCandidates(ans, difficulty)) >= 4

\* an answer of gen_prob is held
ProbAnswered == runner = "run_probability" /\ ans # None

\* C7 (as stated): every answer of gen_prob, in all four sub-modes and for every
\* difficulty, is an integer multiple of 0.0001.
C7_FourPlaces == ProbAnswered => ans.k = "float" /\ ans.v % Grid(4) = 0

\* C7 (amended): the urn, interval and cond answers of gen_prob are integer
\* multiples of 0.0001; the coin answer is 0.5^n (n in 3..10) rounded to five
\* decimal places; and the answers do not depend on the difficulty.
C7_ProbRounding ==
    ProbAnswered =>
        /\ ans.k = "float"
        /\ topic # "coin" => ans.v % Grid(4) = 0
        /\ topic = "coin" =>
              \E m \in 3..10 : 2 * Abs(ans.v * 2^m - Unit) <= 2^m
        /\ \A d \in Difficulties : ans \in gen_prob(topic, d)

\* a coin answer that has a fifth decimal
C7_Witness == ProbAnswered /\ topic = "coin" /\ ans.v % Grid(4) # 0

\* C9: in every multiple-choice question of the timed drill, of the
\* approximations (not sqrt) and of the probability mode, the answer of the
\* generator is one of the 4 options shown, so that some choice is judged
\* correct and opts.index(ans) does not raise.
C9_AnswerDisplayed ==
    /\ pc = "choose" => Hits(ret, ans) # {}
    /\ pc # "raised"

-----------------------------------------------------------------------------
(* Properties of the sessions (Spec)                                        *)

Runners == {"run_classic", "run_eighty", "run_approximations", "run_probability"}
Verdicts == {"Correct!", "Wrong.", "Good! Within tolerance.", "Too far."}
Praise == {"Correct!", "Good! Within tolerance."}

\* the "Score: score/total" lines among the lines printed
ScoreLines(printed) == {l \in Range(printed) : l.text = "Score"}

\* C3: when run_eighty finds the clock past 480 s at the top of iteration k it
\* issues no further question, prints the time-up notice, and the summary
\* gives the score over the k-1 questions attempted.
C3_TimeUpSummary ==
    "TIME IS UP!" \in Texts(out) =>
        /\ "Question" \notin Texts(out)
        /\ issued = i - 1
        /\ ScoreLines(out) = {[text |-> "Score", score |-> score, total |-> i - 1]}

\* a line 1..4 is typed at the drill's prompt
DrillChoiceTyped ==
    /\ runner = "run_eighty" /\ pc = "answer" /\ typed # Blocked
    /\ Lower(Strip(typed)) \in {<<"1">>, <<"2">>, <<"3">>, <<"4">>}

C4_Step ==
    /\ runner' = "run_eighty" => issued' <= DrillLen
    /\ runner' = "run_eighty" /\ issued' = issued + 1 => elapsed' <= Limit
    /\ runner = "run_eighty" /\ pc = "answer" /\ typed = Blocked =>
          /\ elapsed' >= elapsed /\ out' = <<>>
          /\ UNCHANGED <<runner, pc, i, score, issued, answered, hits>>
    /\ DrillChoiceTyped =>
          /\ answered' = answered + 1
          /\ IF DigitVal(Strip(typed)[1]) \in hits
             THEN score' = score + 1 /\ out'[1] = Say("Correct!")
             ELSE score' = score /\ out'[1] = Say("Wrong.")

\* C4: run_eighty issues at most 80 questions, and issues one only if the time
\* elapsed was at most 480 s at the top of the iteration; the clock passing
\* 480 s while an answer is awaited changes nothing, and the answer to a
\* question issued is judged and scored whenever it arrives.
C4_DrillDeadline == [][C4_Step]_vars

\* an answer that arrived after 480 s was judged correct, and then time was up
C4_Witness == {"Correct!", "TIME IS UP!"} \subseteq Texts(out)

\* a line is typed at run_classic's "Your answer: "
ClassicTyped == runner = "run_classic" /\ pc = "answer" /\ typed # Blocked

\* lines typed that are neither a number nor a quit token
NotNumbers == {<<"x">>, <<>>, <<"Q">>}

\* the quit tokens as typed
QuitLines == {<<"q">>, <<"q", "u", "i", "t">>, <<"q", " ">>}

C6_Step ==
    /\ ClassicTyped /\ typed \in NotNumbers =>
          /\ score' = score /\ answered' = answered
          /\ Texts(out') \cap Verdicts = {}
          /\ out'[1] = Say("Invalid.")
          /\ IF i < n
             THEN /\ i' = i + 1 /\ issued' = issued + 1
                  /\ runner' = "run_classic" /\ pc' = "answer"
                  /\ "Question" \in Texts(out')
             ELSE ScoreLines(out') = {[text |-> "Score", score |-> score, total |-> n]}
    /\ ClassicTyped /\ typed \in QuitLines =>
          /\ score' = score /\ answered' = answered /\ issued' = issued
          /\ Texts(out') \cap (Verdicts \cup {"Invalid.", "Question"}) = {}
          /\ out'[1] = [text |-> "Score", score |-> score, total |-> n]
          /\ runner' = "main"

\* C6: in run_classic an answer that is neither a quit token nor a number
\* leaves the score as it is, prints no verdict, and the loop goes on with the
\* next question index; "q" or "quit" ends the loop at once with the summary,
\* the current question not scored.
C6_ClassicInvalidQuit == [][C6_Step]_vars

\* question 2 of a classic session was issued after an invalid answer to
\* question 1
C6_Witness ==
    /\ runner = "run_classic" /\ pc = "answer" /\ i = 2
    /\ {"Invalid.", "Question"} \subseteq Texts(out)
    /\ answered = 0

\* a line is typed at the sqrt question's "Your approximation: "
SqrtTyped ==
    /\ runner = "run_approximations" /\ pc = "answer" /\ topic = "sqrt"
    /\ typed # Blocked

C8_Step ==
    /\ SqrtTyped /\ typed \in {<<"x">>, <<>>, <<"q">>} =>
          /\ pc' = "raised" /\ out' = <<Say("ValueError")>>
          /\ UNCHANGED <<runner, i, score, issued, answered>>
    /\ pc # "raised"
    /\ ClassicTyped /\ typed \in {<<"x">>, <<>>} =>
          /\ out'[1] = Say("Invalid.")
          /\ pc' # "raised"

\* C8: in run_approximations a non-numeric answer to a sqrt question raises an
\* error nothing handles: the session ends there, with no score update, no
\* further question and no summary; run_classic prints "Invalid." for the same
\* line and goes on.
C8_SqrtUnguarded == [][C8_Step]_vars

\* the first sqrt question of two has ended the session
C8_Witness ==
    /\ pc = "raised" /\ runner = "run_approximations" /\ topic = "sqrt"
    /\ i = 1 /\ n = 2

\* the loop bound as C10 states it
LoopBoundStated(r, cnt) == IF r = "run_eighty" THEN DrillLen ELSE cnt

\* range(1, n+1) is empty for n < 1
LoopBound(r, cnt) == IF r = "run_eighty" THEN DrillLen ELSE Max(cnt, 0)

\* what C10 says of the score and of the drill's denominator
ScoreSteps ==
    /\ score' \in {score, score + 1}
    /\ score' = score + 1 <=> Texts(out') \cap Praise # {}
    /\ runner = "run_eighty" => \A l \in ScoreLines(out') : l.total >= 1

C10_StatedStep ==
    runner \in Runners =>
        /\ 0 <= score' /\ score' <= answered' /\ answered' <= issued'
        /\ issued' <= LoopBoundStated(runner, n')
        /\ ScoreSteps

C10_Step ==
    runner \in Runners =>
        /\ 0 <= score' /\ score' <= answered' /\ answered' <= issued'
        /\ issued' <= LoopBound(runner, n')
        /\ ScoreSteps

\* C10 (as stated): in every runner 0 <= score <= answered <= issued <= the
\* loop bound (n, or 80 in the drill); the score changes only by +1 and only
\* in the step that judges an answer correct; the drill divides by at least 1.
C10_Counters == [][C10_StatedStep]_vars

\* C10 (amended): as stated, with the loop bound max(n, 0) outside the drill
\* (a count below 0 is accepted and no question is issued).
C10_CountersAmended == [][C10_Step]_vars

\* a session of two questions has ended, one judged correct and one wrong
C10_Witness ==
    /\ runner = "main" /\ n = 2 /\ score = 1 /\ answered = 2 /\ issued = 2
    /\ "Wrong." \in Texts(out)

-----------------------------------------------------------------------------
(* Properties of get_choice (SpecChoice)                                    *)

\* the line typed, trimmed and lower-cased
Token == Lower(Strip(typed))

\* the allowed answers, lower-cased
Allowed == {Lower(valid[k]) : k \in DOMAIN valid}

C5_Step ==
    /\ pc = "prompt" /\ typed # Blocked /\ Token \notin Allowed =>
          /\ pc' = "prompt" /\ ret' = <<>> /\ typed' = Blocked
          /\ out' = <<[text |-> "Please choose from", list |-> valid]>>
    /\ pc = "prompt" /\ typed # Blocked /\ Token \in Allowed =>
          /\ pc' = "returned" /\ ret' = <<Token>>
    /\ pc' = "returned" => ret'[1] \in Allowed
    /\ pc # "returned"

\* C5: get_choice does not return on a line that, trimmed and lower-cased, is
\* not in the lower-cased allowed list: it prints the list and asks again; on
\* the first line that is, it returns the trimmed lower-cased line, so that
\* what it returns is in the lower-cased allowed list.
C5_GetChoice == [][C5_Step]_vars

\* get_choice returned a line that was typed with blanks and capitals
C5_Witness ==
    /\ runner = "get_choice" /\ pc = "returned"
    /\ typed # ret[1] /\ ret[1] \in Allowed

=============================================================================
